---------------------------- MODULE Spec2Model ----------------------------
(***************************************************************************)
(* State-machine model of src/lib/m17web-player.js: the WebSocketManager   *)
(* singleton (connection table, status-connection table, listener tables), *)
(* the browser sockets it creates, and the M17webPlayer widgets that use   *)
(* it.  Execution is single-threaded: every action is one whole callback   *)
(* (a lifecycle callback, a click, a socket event) run to completion.      *)
(***************************************************************************)
EXTENDS Integers, Sequences, FiniteSets, TLC

(***************************************************************************)
(* Bounds of the model.                                                    *)
(***************************************************************************)
\* Sockets the page may create in one run (loading creates the status
\* socket).
MaxSockets == 3
\* Listener slots the keys may hold, all together (loading the page fills
\* four status slots for every widget).
MaxSlots == 10

\* The widgets of the page.
Sessions == {"A", "B"}
\* The attribute values of the page: every widget is written with the same
\* proxy and reflector and one of two modules, and scripts change the
\* module attribute between the two.  (A widget's properties are '' only
\* between its constructor and its first attributeChangedCallback.)
Proxies == {"p1"}
Reflectors == {"r1"}
Modules == {"M", "N"}

\* this._receive_buffer.length >= 128
Threshold == 128

(***************************************************************************)
(* Keys.  The code builds the strings `${proxy}/${reflector}/${module}`    *)
(* and `status:${proxy}`; over the attribute values above these strings    *)
(* are told apart exactly as the tuples below are.                         *)
(***************************************************************************)
DataKey(proxy, reflector, module) == <<proxy, reflector, module>>
StatusKey(proxy) == <<"status:", proxy>>
KeyOf(proxy, reflector, module, isStatus) ==
    IF isStatus THEN StatusKey(proxy) ELSE DataKey(proxy, reflector, module)

DataKeys == {DataKey(p, r, m) : p \in Proxies, r \in Reflectors, m \in Modules}
StatusKeys == {StatusKey(p) : p \in Proxies}
Keys == DataKeys \cup StatusKeys

NoWs == 0          \* null / undefined socket reference
NoConn == [ws |-> NoWs, refCount |-> 0]   \* connections[key] is undefined

(***************************************************************************)
(* Listener objects.  wsListener defines all four callbacks and closes     *)
(* over `self` and `shadow`; statusListener defines onmessage only; {} is  *)
(* the tombstone unregisterListener writes.                                *)
(***************************************************************************)
EmptyListener == [kind |-> "empty", self |-> "", shadow |-> FALSE]
WsListener(s, sh) == [kind |-> "ws", self |-> s, shadow |-> sh]
StatusListener(s, sh) == [kind |-> "status", self |-> s, shadow |-> sh]
\* registerListener takes any object.  The widgets register only the two
\* above; this one, registered by a script of the page, defines onmessage
\* only, and its onmessage calls unregisterListener on token `index` of
\* `key`.
Unregisters(key, index) ==
    [kind |-> "unregisters", self |-> "", shadow |-> TRUE,
     key |-> key, index |-> index]

\* listener[eventName] is truthy
Defines(listener, eventName) ==
    \/ listener.kind = "ws"
    \/ listener.kind \in {"status", "unregisters"} /\ eventName = "onmessage"

VARIABLES
    connections,        \* data key -> {ws, refCount} or NoConn
    statusConnections,  \* status key -> socket handle or NoWs
    listeners,          \* key -> array of listener objects
    sockets,            \* the WebSocket objects created so far, by handle
    sessions,           \* widget -> its fields
    held,               \* history: widget -> the sockets of the connection
                        \* entries it acquired through getConnection and
                        \* has not released since
    unregistered,       \* history: the <<key, token>> pairs of the slots
                        \* unregisterListener has been called on
    issued,             \* history: key -> the tokens registerListener returned
    room                \* what the run may use beyond MaxSockets and MaxSlots

vars == <<connections, statusConnections, listeners, sockets, sessions,
          held, unregistered, issued, room>>

\* The state a callback works on; `log` collects, call by call, what the
\* callback does, and `thrown` is set when an exception is propagating out
\* of it.
World == [connections |-> connections, statusConnections |-> statusConnections,
          listeners |-> listeners, sockets |-> sockets, sessions |-> sessions,
          log |-> <<>>, thrown |-> FALSE]

\* One entry of the log.
Entry(op, key, index, n, ws, self, event, bytes) ==
    [op |-> op, key |-> key, index |-> index, n |-> n, ws |-> ws,
     self |-> self, event |-> event, bytes |-> bytes]
Logged(w, e) == [w EXCEPT !.log = Append(@, e)]
\* The call logged last was made by widget s.
Called(w, s) == [w EXCEPT !.log[Len(w.log)].self = s]

(***************************************************************************)
(* The browser's WebSocket objects.                                        *)
(***************************************************************************)
\* new WebSocket(url) followed by createEventHandlers(ws, key, isStatus):
\* the handlers close over key and isStatus.  The handle is the object's
\* identity.
NewWebSocket(w, key, isStatus) ==
    [w EXCEPT !.sockets = Append(@, [key |-> key, isStatus |-> isStatus,
                                     readyState |-> "connecting"])]

\* ws.close(): starts the closing handshake; the close event comes later.
WsClose(w, h) ==
    IF w.sockets[h].readyState \in {"connecting", "open"}
    THEN [w EXCEPT !.sockets[h].readyState = "closing"]
    ELSE w

(***************************************************************************)
(* WebSocketManager                                                        *)
(***************************************************************************)
\* A status acquire that opens a socket on every call.
getStatusConnectionFresh(w, proxy) ==
    LET key == StatusKey(proxy)
        c == NewWebSocket(w, key, TRUE)
    IN  Logged([c EXCEPT !.statusConnections[key] = Len(c.sockets)],
               Entry("getStatusConnection", key, -1, 1, Len(c.sockets), "", "", <<>>))

getStatusConnection(w, proxy) ==
    LET key == StatusKey(proxy)
        w1 == IF w.statusConnections[key] = NoWs
              THEN LET c == NewWebSocket(w, key, TRUE)
                   IN  [c EXCEPT !.statusConnections[key] = Len(c.sockets)]
              ELSE w
    IN  Logged(w1, Entry("getStatusConnection", key, -1,
                         IF w.statusConnections[key] = NoWs THEN 1 ELSE 0,
                         w1.statusConnections[key], "", "", <<>>))

getConnection(w, proxy, reflector, module) ==
    LET key == DataKey(proxy, reflector, module)
        w1 == IF w.connections[key] = NoConn
              THEN LET c == NewWebSocket(w, key, FALSE)
                   IN  [c EXCEPT !.connections[key] =
                                     [ws |-> Len(c.sockets), refCount |-> 0]]
              ELSE w
        w2 == [w1 EXCEPT !.connections[key].refCount = @ + 1]
    IN  Logged(w2, Entry("getConnection", key, -1, w2.connections[key].refCount,
                         w2.connections[key].ws, "", "", <<>>))

\* The token a registerListener call returned: the call is the last of w.
Token(w) == w.log[Len(w.log)].index

\* A register that puts the listener into the last slot when that slot holds
\* a tombstone.
registerListenerReuse(w, proxy, reflector, module, listenerObj, isStatus) ==
    LET key == KeyOf(proxy, reflector, module, isStatus)
        n == Len(w.listeners[key])
        w1 == IF n > 0 /\ w.listeners[key][n] = EmptyListener
              THEN [w EXCEPT !.listeners[key][n] = listenerObj]
              ELSE [w EXCEPT !.listeners[key] = Append(@, listenerObj)]
    IN  Logged(w1, Entry("registerListener", key, Len(w1.listeners[key]) - 1,
                         0, NoWs, listenerObj.self, "", <<>>))

\* listeners[key].push(listenerObj); return listeners[key].length - 1: the
\* token returned is logged in `index`.
registerListener(w, proxy, reflector, module, listenerObj, isStatus) ==
    LET key == KeyOf(proxy, reflector, module, isStatus)
        w1 == [w EXCEPT !.listeners[key] = Append(@, listenerObj)]
    IN  Logged(w1, Entry("registerListener", key, Len(w1.listeners[key]) - 1,
                         0, NoWs, listenerObj.self, "", <<>>))

\* An unregister that leaves the slot as it is.
keepListener(w, key, index) == w

\* if (listeners[key] && listeners[key][index]) listeners[key][index] = {}
\* (an index outside the array reads undefined; a tombstone is truthy and is
\* overwritten by a tombstone).
tombstone(w, key, index) ==
    IF index >= 0 /\ index < Len(w.listeners[key])
    THEN [w EXCEPT !.listeners[key][index + 1] = EmptyListener]
    ELSE w

\* A release that closes only below zero.
releaseBelowZero(w, key) ==
    LET d == [w EXCEPT !.connections[key].refCount = @ - 1]
    IN  IF d.connections[key].refCount < 0
        THEN [WsClose(d, d.connections[key].ws) EXCEPT !.connections[key] = NoConn]
        ELSE d

\* connections[key].refCount--, and close() and delete at zero or below.
release(w, key) ==
    LET d == [w EXCEPT !.connections[key].refCount = @ - 1]
    IN  IF d.connections[key].refCount <= 0
        THEN [WsClose(d, d.connections[key].ws) EXCEPT !.connections[key] = NoConn]
        ELSE d

\* The log entry keeps the refCount and the socket of the connection entry
\* found (-1 and NoWs: none, or a status key), "slot" when the token named
\* a slot of the array, and "closed" in `bytes` when close() was called.
unregisterListener(w, proxy, reflector, module, index, isStatus) ==
    LET key == KeyOf(proxy, reflector, module, isStatus)
        Found(w1) == ~isStatus /\ w1.connections[key] # NoConn
        Released(w1) == IF Found(w1) THEN release(w1, key) ELSE w1
        Result(w1, w2) ==
            Logged(w2, Entry("unregisterListener", key, index,
                             IF Found(w1) THEN w1.connections[key].refCount ELSE -1,
                             IF Found(w1) THEN w1.connections[key].ws ELSE NoWs,
                             "",
                             IF index >= 0 /\ index < Len(w.listeners[key])
                                THEN "slot" ELSE "",
                             IF Found(w1) /\ w2.connections[key] = NoConn
                                THEN <<"closed">> ELSE <<>>))
    IN  Result(tombstone(w, key, index), Released(tombstone(w, key, index)))

(***************************************************************************)
(* Messages.  A data frame is {c2_stream, done}; a status frame is an      *)
(* array of entries, of which the listener only reads reflector and module *)
(* (one entry is enough to make a listener match or not).                  *)
(***************************************************************************)
\* The c2_stream of n bytes the model's server sends.
Stream(n) == [i \in 1..n |-> (i * 7) % 256]
\* The data frames of the model: a short final frame, a frame of half the
\* threshold (final or not), a frame above the threshold.
DataMessages == {[c2_stream |-> Stream(10), done |-> TRUE],
                 [c2_stream |-> Stream(64), done |-> FALSE],
                 [c2_stream |-> Stream(64), done |-> TRUE],
                 [c2_stream |-> Stream(200), done |-> FALSE]}
StatusMessages == {[reflector |-> r, module |-> m] :
                     r \in Reflectors, m \in Modules}

\* new Uint8Array(self._arrayToArrayBuffer(array)): every element is stored
\* modulo 256.
arrayToArrayBuffer(array) == [i \in 1..Len(array) |-> array[i] % 256]

(***************************************************************************)
(* The listener callbacks.  `l` is the listener object, whose self and     *)
(* shadow are what the closure captured when it was created.  A callback   *)
(* that dereferences a null shadow throws a TypeError.                     *)
(***************************************************************************)
Throw(w) == [Logged(w, Entry("throw", <<>>, -1, 0, NoWs, "", "", <<>>))
                EXCEPT !.thrown = TRUE]

wsListener_onopen(w, l) == IF l.shadow THEN w ELSE Throw(w)

wsListener_onclose(w, l) ==
    IF l.shadow THEN [w EXCEPT !.sessions[l.self].playerActive = FALSE]
    ELSE Throw(w)

wsListener_onerror(w, l) == IF l.shadow THEN w ELSE Throw(w)

\* An onmessage that flushes only above the threshold.
wsListener_onmessageAbove(w, l, evt) ==
    LET buf == w.sessions[l.self].receive_buffer \o arrayToArrayBuffer(evt.c2_stream)
    IN  IF Len(buf) > Threshold \/ evt.done
        THEN [Logged(w, Entry("decode", <<>>, -1, Len(buf), NoWs, l.self, "", buf))
                 EXCEPT !.sessions[l.self].receive_buffer = <<>>]
        ELSE [w EXCEPT !.sessions[l.self].receive_buffer = buf]

\* self._playResult(decode(self._receive_buffer)) is logged as "decode".
wsListener_onmessage(w, l, evt) ==
    LET buf == w.sessions[l.self].receive_buffer \o arrayToArrayBuffer(evt.c2_stream)
    IN  IF Len(buf) >= Threshold \/ evt.done
        THEN [Logged(w, Entry("decode", <<>>, -1, Len(buf), NoWs, l.self, "", buf))
                 EXCEPT !.sessions[l.self].receive_buffer = <<>>]
        ELSE [w EXCEPT !.sessions[l.self].receive_buffer = buf]

\* Only the DOM is written, and only for an entry of the widget's own
\* reflector and module.
statusListener_onmessage(w, l, evt) ==
    IF /\ evt.reflector = w.sessions[l.self].reflector
       /\ evt.module = w.sessions[l.self].module
       /\ ~l.shadow
    THEN Throw(w)
    ELSE w

\* listener[eventName](event)
Invoke(w, l, eventName, evt) ==
    IF l.kind = "status" THEN statusListener_onmessage(w, l, evt)
    ELSE IF l.kind = "unregisters"
    THEN unregisterListener(w, l.key[1], l.key[2], l.key[3], l.index, FALSE)
    ELSE CASE eventName = "onopen" -> wsListener_onopen(w, l)
           [] eventName = "onclose" -> wsListener_onclose(w, l)
           [] eventName = "onerror" -> wsListener_onerror(w, l)
           [] OTHER -> wsListener_onmessage(w, l, evt)

\* listeners[key].forEach(...) from index i on: the length is read once, at
\* the start; each slot is read when it is visited; an exception ends the
\* iteration.  Every call of a listener is logged as "invoke".
RECURSIVE forEach(_, _, _, _, _, _)
forEach(w, key, eventName, evt, i, n) ==
    IF i >= n \/ w.thrown THEN w
    ELSE LET l == w.listeners[key][i + 1]
         IN  forEach(IF Defines(l, eventName)
                     THEN Invoke(Logged(w, Entry("invoke", key, i, 0, NoWs,
                                                 l.self, eventName, <<>>)),
                                 l, eventName, evt)
                     ELSE w,
                     key, eventName, evt, i + 1, n)

\* A forEach over a copy of the array taken when the dispatch starts.
RECURSIVE forEachCopy(_, _, _, _, _, _)
forEachCopy(w, copy, key, eventName, evt, i) ==
    IF i >= Len(copy) \/ w.thrown THEN w
    ELSE forEachCopy(IF Defines(copy[i + 1], eventName)
                     THEN Invoke(Logged(w, Entry("invoke", key, i, 0, NoWs,
                                                 copy[i + 1].self, eventName, <<>>)),
                                 copy[i + 1], eventName, evt)
                     ELSE w,
                     copy, key, eventName, evt, i + 1)

notifyListenersCopy(w, key, eventName, evt) ==
    forEachCopy(w, w.listeners[key], key, eventName, evt, 0)

notifyListeners(w, key, eventName, evt) ==
    forEach(w, key, eventName, evt, 0, Len(w.listeners[key]))

NoEvent == [none |-> TRUE]

\* The handlers createEventHandlers gives socket h.
ws_onopen(w, h) == notifyListeners(w, w.sockets[h].key, "onopen", NoEvent)

\* A close handler that only notifies.
ws_oncloseKeeps(w, h) == notifyListeners(w, w.sockets[h].key, "onclose", NoEvent)

ws_onclose(w, h) ==
    LET key == w.sockets[h].key
        w1 == IF w.sockets[h].isStatus
              THEN [w EXCEPT !.statusConnections[key] = NoWs]
              ELSE [w EXCEPT !.connections[key] = NoConn]
    IN  notifyListeners(w1, key, "onclose", NoEvent)

\* An error handler that drops the connection as the close handler does.
ws_onerrorDrops(w, h, evt) == ws_onclose(w, h)

ws_onerror(w, h, evt) == notifyListeners(w, w.sockets[h].key, "onerror", evt)

ws_onmessage(w, h, evt) == notifyListeners(w, w.sockets[h].key, "onmessage", evt)

(***************************************************************************)
(* M17webPlayer.  `s` is the widget (`this`).  shadowRoot and isConnected  *)
(* are the element's own DOM state.                                        *)
(***************************************************************************)
NewSession == [proxy |-> "", reflector |-> "", module |-> "",
               playerActive |-> FALSE,
               wsListenerIndex |-> -1, statusListenerIndex |-> -1,
               ws |-> NoWs, statusWs |-> NoWs,
               receive_buffer |-> <<>>,
               shadowRoot |-> FALSE, isConnected |-> FALSE]

\* Each local operator below is one statement of the method, applied to the
\* state the statements before it left.
disconnectWebSockets(w, s) ==
    LET t == w.sessions[s]
        UnregisterData(w0) ==
            IF t.wsListenerIndex >= 0
            THEN [Called(unregisterListener(w0, t.proxy, t.reflector, t.module,
                                            t.wsListenerIndex, FALSE), s)
                    EXCEPT !.sessions[s].wsListenerIndex = -1]
            ELSE w0
        UnregisterStatus(w1) ==
            IF t.statusListenerIndex >= 0
            THEN [Called(unregisterListener(w1, t.proxy, "", "",
                                            t.statusListenerIndex, TRUE), s)
                    EXCEPT !.sessions[s].statusListenerIndex = -1]
            ELSE w1
        Forget(w2) == [w2 EXCEPT !.sessions[s].ws = NoWs,
                                 !.sessions[s].statusWs = NoWs]
    IN  Forget(UnregisterStatus(UnregisterData(w)))

connectToServerStatus(w, s) ==
    LET t == w.sessions[s]
        UnregisterPrevious(w0) ==
            IF t.statusListenerIndex >= 0
            THEN Called(unregisterListener(w0, t.proxy, "", "",
                                           t.statusListenerIndex, TRUE), s)
            ELSE w0
        Register(w1) == registerListener(w1, t.proxy, "", "",
                                         StatusListener(s, t.shadowRoot), TRUE)
        KeepToken(w2) == [w2 EXCEPT !.sessions[s].statusListenerIndex = Token(w2)]
        Get(w3) == Called(getStatusConnection(w3, t.proxy), s)
        KeepSocket(w4) == [w4 EXCEPT !.sessions[s].statusWs =
                                        w4.statusConnections[StatusKey(t.proxy)]]
    IN  IF t.proxy = "" THEN w
        ELSE KeepSocket(Get(KeepToken(Register(UnregisterPrevious(w)))))

connectToServer(w, s) ==
    LET t == w.sessions[s]
        key == DataKey(t.proxy, t.reflector, t.module)
        UnregisterPrevious(w0) ==
            IF t.wsListenerIndex >= 0
            THEN Called(unregisterListener(w0, t.proxy, t.reflector, t.module,
                                           t.wsListenerIndex, FALSE), s)
            ELSE w0
        Register(w1) == registerListener(w1, t.proxy, t.reflector, t.module,
                                         WsListener(s, t.shadowRoot), FALSE)
        KeepToken(w2) == [w2 EXCEPT !.sessions[s].wsListenerIndex = Token(w2)]
        Get(w3) == Called(getConnection(w3, t.proxy, t.reflector, t.module), s)
        KeepSocket(w4) == [w4 EXCEPT !.sessions[s].ws = w4.connections[key].ws]
    IN  IF t.proxy = "" \/ t.reflector = "" \/ t.module = "" THEN w
        ELSE KeepSocket(Get(KeepToken(Register(UnregisterPrevious(w)))))

reconnectIfNeeded(w, s) ==
    LET t == w.sessions[s]
    IN  IF t.playerActive /\ t.proxy # "" /\ t.reflector # "" /\ t.module # ""
        THEN connectToServer(disconnectWebSockets(w, s), s)
        ELSE IF ~t.playerActive THEN connectToServerStatus(w, s)
        ELSE w

\* name is "proxy", "reflector" or "module" ("label" and "theme" touch
\* nothing modelled here); the caller has checked oldValue !== newValue.
attributeChangedCallback(w, s, name, newValue) ==
    reconnectIfNeeded([w EXCEPT !.sessions[s][name] = newValue], s)

\* _createUI() calls attachShadow, which throws when the element already
\* has a shadow root (a widget inserted a second time).
connectedCallback(w, s) ==
    IF w.sessions[s].shadowRoot THEN Throw(w)
    ELSE connectToServerStatus([w EXCEPT !.sessions[s].shadowRoot = TRUE], s)

disconnectedCallback(w, s) == disconnectWebSockets(w, s)

togglePlay(w, s) ==
    LET t == w.sessions[s]
        Unregister(w0) ==
            IF t.wsListenerIndex >= 0
            THEN [Called(unregisterListener(w0, t.proxy, t.reflector, t.module,
                                            t.wsListenerIndex, FALSE), s)
                    EXCEPT !.sessions[s].wsListenerIndex = -1,
                           !.sessions[s].ws = NoWs]
            ELSE w0
    IN  IF t.playerActive
        THEN [Unregister(w) EXCEPT !.sessions[s].playerActive = FALSE]
        ELSE connectToServer([w EXCEPT !.sessions[s].playerActive = TRUE], s)

\* The browser upgrades a widget written in the page's markup with its
\* proxy, reflector and module attributes (in that order, as in the README):
\* one attributeChangedCallback per attribute, then connectedCallback, with
\* no other callback in between.
upgrade(w, s, proxy, reflector, module) ==
    LET Insert(w3) == connectedCallback([w3 EXCEPT !.sessions[s].isConnected = TRUE], s)
    IN  Insert(attributeChangedCallback(
                 attributeChangedCallback(
                   attributeChangedCallback(w, s, "proxy", proxy),
                   s, "reflector", reflector),
                 s, "module", module))

(***************************************************************************)
(* The state machine.                                                      *)
(***************************************************************************)
(***************************************************************************)
(* History variables, computed from the calls a callback made.  Every      *)
(* call of the manager that a widget makes is logged with the widget in    *)
(* `self` (see Called).                                                    *)
(***************************************************************************)
RECURSIVE Holds(_, _)
Holds(h, calls) ==
    IF calls = <<>> THEN h
    ELSE LET e == Head(calls)
         IN  Holds(CASE e.op = "getConnection" ->
                          [h EXCEPT ![e.self] = @ \cup {e.ws}]
                     [] e.op = "unregisterListener" /\ e.n > 0 ->
                          [h EXCEPT ![e.self] = @ \ {e.ws}]
                     [] OTHER -> h,
                   Tail(calls))

\* Only the sockets of the connection entries that still exist are kept.
HoldsOf(h, w) ==
    LET now == Holds(h, w.log)
    IN  [s \in Sessions |->
           {x \in now[s] : \E k \in DataKeys : w.connections[k].ws = x}]

RECURSIVE Unregistered(_, _)
Unregistered(u, calls) ==
    IF calls = <<>> THEN u
    ELSE LET e == Head(calls)
         IN  Unregistered(IF e.op = "unregisterListener" /\ e.event = "slot"
                          THEN u \cup {<<e.key, e.index>>} ELSE u,
                          Tail(calls))

RECURSIVE Issued(_, _)
Issued(t, calls) ==
    IF calls = <<>> THEN t
    ELSE LET e == Head(calls)
         IN  Issued(IF e.op = "registerListener"
                    THEN [t EXCEPT ![e.key] = @ \cup {e.index}] ELSE t,
                    Tail(calls))

\* The manager's tables when the module is evaluated, and the widgets as
\* their constructors leave them.
Loaded == [connections |-> [k \in DataKeys |-> NoConn],
           statusConnections |-> [k \in StatusKeys |-> NoWs],
           listeners |-> [k \in Keys |-> <<>>],
           sockets |-> <<>>,
           sessions |-> [s \in Sessions |-> NewSession],
           log |-> <<>>, thrown |-> FALSE]

\* customElements.define: the widgets of the markup are upgraded one after
\* the other, in document order; mods gives each widget's module attribute.
RECURSIVE define(_, _, _)
define(w, widgets, mods) ==
    IF widgets = <<>> THEN w
    ELSE define(upgrade(w, Head(widgets), "p1", "r1", mods[Head(widgets)]),
                Tail(widgets), mods)

\* A script creates a widget and sets its proxy, reflector and module
\* attributes; the widget is not inserted yet, so it has no shadow root.
script(w, s, proxy, reflector, module) ==
    attributeChangedCallback(
      attributeChangedCallback(
        attributeChangedCallback(w, s, "proxy", proxy),
        s, "reflector", reflector),
      s, "module", module)

RECURSIVE create(_, _, _)
create(w, widgets, mods) ==
    IF widgets = <<>> THEN w
    ELSE create(script(w, Head(widgets), "p1", "r1", mods[Head(widgets)]),
                Tail(widgets), mods)

\* The ways the page gets its widgets, in creation order: both written in
\* the markup, or the first in the markup and the second made by a script.
Pages == {[markup |-> <<"A", "B">>, scripted |-> <<>>],
          [markup |-> <<"A">>, scripted |-> <<"B">>]}

\* The page has been loaded: every widget of the markup is upgraded, and
\* the page's script has made its widgets.
PageLoaded ==
    \E mods \in [Sessions -> Modules], page \in Pages :
      \E w \in {create(define(Loaded, page.markup, mods), page.scripted, mods)} :
          /\ connections = w.connections
          /\ statusConnections = w.statusConnections
          /\ listeners = w.listeners
          /\ sockets = w.sockets
          /\ sessions = w.sessions
          /\ held = HoldsOf([s \in Sessions |-> {}], w)
          /\ unregistered = Unregistered({}, w.log)
          /\ issued = Issued([k \in Keys |-> {}], w.log)

Init == PageLoaded /\ room = 0

\* The same page, in a run that may create one more socket and register
\* one more listener.
InitDeep == PageLoaded /\ room = 1

RECURSIVE SumLen(_, _)
SumLen(f, K) ==
    IF K = {} THEN 0
    ELSE LET k == CHOOSE x \in K : TRUE IN Len(f[k]) + SumLen(f, K \ {k})

\* The run stays within the bounds of the model.
WithinBounds(w) ==
    /\ Len(w.sockets) <= MaxSockets + room
    /\ SumLen(w.listeners, Keys) <= MaxSlots + room

\* A callback has run to completion and left w.
Commit(w) ==
    /\ WithinBounds(w)
    /\ connections' = w.connections
    /\ statusConnections' = w.statusConnections
    /\ listeners' = w.listeners
    /\ sockets' = w.sockets
    /\ sessions' = w.sessions
    /\ held' = HoldsOf(held, w)
    /\ unregistered' = Unregistered(unregistered, w.log)
    /\ issued' = Issued(issued, w.log)
    /\ room' = room

\* setAttribute / removeAttribute of the module attribute.
AttributeChanged(s) ==
    \E v \in Modules :
        /\ v # sessions[s].module
        /\ Commit(attributeChangedCallback(World, s, "module", v))

\* The element is inserted into the page, for the first time or again.
Connected(s) ==
    /\ ~sessions[s].isConnected
    /\ Commit(connectedCallback([World EXCEPT !.sessions[s].isConnected = TRUE], s))

\* The element is removed from the page.
Disconnected(s) ==
    /\ sessions[s].isConnected
    /\ Commit(disconnectedCallback([World EXCEPT !.sessions[s].isConnected = FALSE], s))

\* The user clicks the play button of a widget on the page.
TogglePlay(s) ==
    /\ sessions[s].isConnected
    /\ sessions[s].shadowRoot
    /\ Commit(togglePlay(World, s))

\* The socket's events, as the browser fires them.
SocketOpen(h) ==
    /\ sockets[h].readyState = "connecting"
    /\ Commit(ws_onopen([World EXCEPT !.sockets[h].readyState = "open"], h))

SocketMessage(h) ==
    /\ sockets[h].readyState = "open"
    /\ \E evt \in IF sockets[h].isStatus THEN StatusMessages ELSE DataMessages :
         Commit(ws_onmessage(World, h, evt))

SocketError(h) ==
    /\ sockets[h].readyState \in {"connecting", "open"}
    /\ Commit(ws_onerror(World, h, NoEvent))

\* The connection ends: the server closed it, it failed, or the closing
\* handshake started by ws.close() is done.
SocketClose(h) ==
    /\ sockets[h].readyState \in {"connecting", "open", "closing"}
    /\ Commit(ws_onclose([World EXCEPT !.sockets[h].readyState = "closed"], h))

NextConn ==
    \/ \E s \in Sessions : AttributeChanged(s)
    \/ \E s \in Sessions : Connected(s)
    \/ \E s \in Sessions : Disconnected(s)
    \/ \E s \in Sessions : TogglePlay(s)
    \/ \E h \in 1..Len(sockets) : SocketClose(h)

SpecConn == Init /\ [][NextConn]_vars
SpecConnDeep == InitDeep /\ [][NextConn]_vars

\* The clients of one data key: the two widgets, and a script that
\* registers a listener of its own and acquires the connection.
Clients == Sessions \cup {"script"}
Orders ==
    {o \in UNION {[1..n -> Clients] : n \in 1..Cardinality(Clients)} :
       /\ \A i, j \in DOMAIN o : o[i] = o[j] => i = j
       /\ \E i \in DOMAIN o : o[i] = "script"}

\* The script's calls: registerListener, then getConnection.
subscribe(w, listenerObj) ==
    getConnection(registerListener(w, "p1", "r1", "M", listenerObj, FALSE),
                  "p1", "r1", "M")

\* The clients subscribe in the order given: a widget by a click on its
\* button, the script with a listener that unregisters token index.
RECURSIVE subscribeAll(_, _, _)
subscribeAll(w, order, index) ==
    IF order = <<>> THEN w
    ELSE subscribeAll(IF Head(order) = "script"
                      THEN subscribe(w, Unregisters(DataKey("p1", "r1", "M"), index))
                      ELSE togglePlay(w, Head(order)),
                      Tail(order), index)

\* Both widgets are in the markup with the same key; the clients have
\* subscribed.
InitDispatch ==
    /\ \E order \in Orders, index \in -1..Cardinality(Clients) :
         \E w \in {subscribeAll(define(Loaded, <<"A", "B">>, [s \in Sessions |-> "M"]),
                                 order, index)} :
           /\ connections = w.connections
           /\ statusConnections = w.statusConnections
           /\ listeners = w.listeners
           /\ sockets = w.sockets
           /\ sessions = w.sessions
           /\ held = HoldsOf([s \in Sessions |-> {}], w)
           /\ unregistered = Unregistered({}, w.log)
           /\ issued = Issued([k \in Keys |-> {}], w.log)
    /\ room = 1

NextDispatch ==
    \/ \E h \in 1..Len(sockets) : SocketOpen(h)
    \/ \E h \in 1..Len(sockets) : SocketMessage(h)
    \/ \E h \in 1..Len(sockets) : SocketError(h)
    \/ \E h \in 1..Len(sockets) : SocketClose(h)

SpecDispatch == InitDispatch /\ [][NextDispatch]_vars

NextStream ==
    \/ \E s \in Sessions : AttributeChanged(s)
    \/ \E s \in Sessions : TogglePlay(s)
    \/ \E h \in 1..Len(sockets) : SocketOpen(h)
    \/ \E h \in 1..Len(sockets) : SocketMessage(h)
    \/ \E h \in 1..Len(sockets) : SocketError(h)
    \/ \E h \in 1..Len(sockets) : SocketClose(h)

SpecStream == Init /\ [][NextStream]_vars

(***************************************************************************)
(* Properties.                                                             *)
(***************************************************************************)
\* unregisterListener(key, index) for a data key, applied to the current
\* state.
Release(k, index) == unregisterListener(World, k[1], k[2], k[3], index, FALSE)

\* C1: the refCount of a data connection is never negative, and a release
\* on its key, whatever token it is given, closes the socket and removes the
\* entry if and only if it brings the refCount to exactly 0; otherwise the
\* entry stays, with the same socket left as it was and one reference less.
RefCountDiscipline ==
    \A k \in DataKeys :
      connections[k] # NoConn =>
        /\ connections[k].refCount >= 0
        /\ \A index \in -1..Len(listeners[k]) :
             LET w == Release(k, index)
                 ws == connections[k].ws
                 removed == /\ w.connections[k] = NoConn
                            /\ w.sockets[ws].readyState = "closing"
             IN  /\ removed <=> connections[k].refCount - 1 = 0
                 /\ ~removed =>
                       /\ w.connections[k] =
                             [ws |-> ws, refCount |-> connections[k].refCount - 1]
                       /\ w.sockets = sockets

\* Two widgets acquired the key and the first has released it: the
\* connection is still there, not closed, with refCount 1, held by the other.
SecondHolderKeepsConnection ==
    \E k \in DataKeys, s \in Sessions, t \in Sessions :
      /\ s # t
      /\ connections[k] # NoConn
      /\ connections[k].refCount = 1
      /\ sockets[connections[k].ws].readyState = "connecting"
      /\ Len(listeners[k]) = 2
      /\ listeners[k][1] = EmptyListener
      /\ <<k, 0>> \in unregistered
      /\ listeners[k][2] = WsListener(t, TRUE)
      /\ held[s] = {}
      /\ held[t] = {connections[k].ws}

\* The data key of widget s.
KeyOfSession(s) ==
    DataKey(sessions[s].proxy, sessions[s].reflector, sessions[s].module)

\* Widget s is playing on the socket getConnection returned to it.
Holding(s) == sessions[s].playerActive /\ sessions[s].ws # NoWs

\* The widgets that acquired the connection of key k and have not released
\* it since.
Holders(k) == {s \in Sessions : connections[k].ws \in held[s]}

\* C2: widgets holding the same key have the same socket handle, the one of
\* the key's connection, and the refCount of every connection is the number
\* of widgets that acquired it and have not released it since.
SharedConnection ==
    /\ \A s \in Sessions, t \in Sessions :
          Holding(s) /\ Holding(t) /\ KeyOfSession(s) = KeyOfSession(t) =>
            /\ sessions[s].ws = sessions[t].ws
            /\ connections[KeyOfSession(s)].ws = sessions[s].ws
    /\ \A k \in DataKeys :
          connections[k] # NoConn =>
            connections[k].refCount = Cardinality(Holders(k))

\* Socket h is live: created, and neither closed nor being closed.
Live(h) == sockets[h].readyState \in {"connecting", "open"}

\* C3: no two live sockets have the same key.
OneLiveSocketPerKey ==
    \A h1 \in 1..Len(sockets), h2 \in 1..Len(sockets) :
      Live(h1) /\ Live(h2) /\ sockets[h1].key = sockets[h2].key => h1 = h2

\* The event names the sockets dispatch, and the events a key can carry.
EventNames == {"onopen", "onclose", "onerror", "onmessage"}
EventsOf(k) == IF k \in StatusKeys THEN StatusMessages ELSE DataMessages

\* The dispatches a socket of key k can make: a message with its event, and
\* the other event names (their event is not read by any listener).
Dispatches(k) ==
    {[name |-> "onmessage", evt |-> m] : m \in EventsOf(k)}
      \cup {[name |-> e, evt |-> NoEvent] : e \in EventNames \ {"onmessage"}}

\* The <<key, index>> pairs of the listeners a callback invoked.
Invoked(w) ==
    {<<w.log[j].key, w.log[j].index>> :
       j \in {i \in 1..Len(w.log) : w.log[i].op = "invoke"}}

\* C4: a slot unregisterListener has been called on holds the tombstone, and
\* no dispatch on its key, of any event name and any event, invokes it.
UnregisteredNeverInvoked ==
    /\ \A p \in unregistered : listeners[p[1]][p[2] + 1] = EmptyListener
    /\ \A k \in Keys :
          \A d \in Dispatches(k) :
            Invoked(notifyListeners(World, k, d.name, d.evt)) \cap unregistered = {}

\* Token 0 of a data key was unregistered; the listener registered after it
\* on the same key has received a frame, and the other widget has not.
DispatchSkipsTombstone ==
    \E k \in DataKeys, s \in Sessions, t \in Sessions :
      /\ s # t
      /\ KeyOfSession(s) = k
      /\ <<k, 0>> \in unregistered
      /\ Len(listeners[k]) = 2
      /\ listeners[k][2] = WsListener(t, TRUE)
      /\ sessions[t].receive_buffer = Stream(64)
      /\ sessions[s].receive_buffer = <<>>
      /\ ~sessions[s].playerActive

\* Widget s has an active data listener in the array ls[k].
ListeningIn(ls, s, k) ==
    \E i \in 1..Len(ls[k]) : ls[k][i].kind = "ws" /\ ls[k][i].self = s

\* C5: when the key of a playing widget changes, the widget afterwards has
\* no active listener under the old key and holds no reference on the old
\* key's connection, and it has an active listener under the new key.
KeyChangeLeavesOldKey ==
    [][\A s \in Sessions :
         sessions[s].playerActive /\ KeyOfSession(s)' # KeyOfSession(s) =>
           /\ ~ListeningIn(listeners', s, KeyOfSession(s))
           /\ connections[KeyOfSession(s)].ws \notin held'[s]
           /\ ListeningIn(listeners', s, KeyOfSession(s)')]_vars

\* C6: the close event of a data socket that is not closed yet leaves the
\* registry without an entry for the socket's key, whatever the entry was,
\* changes no other entry and creates or re-opens no socket; and the next
\* getConnection for the key creates a new socket, connecting, with a handle
\* none of the sockets so far has, and an entry with refCount 1.
CloseRemovesConnection ==
    \A h \in 1..Len(sockets) :
      ~sockets[h].isStatus /\ sockets[h].readyState # "closed" =>
        LET k == sockets[h].key
            closed == [World EXCEPT !.sockets[h].readyState = "closed"]
            w1 == ws_onclose(closed, h)
            w2 == getConnection(w1, k[1], k[2], k[3])
            new == w2.connections[k].ws
        IN  /\ w1.connections = [connections EXCEPT ![k] = NoConn]
            /\ w1.sockets = closed.sockets
            /\ new \notin 1..Len(sockets)
            /\ w2.connections[k].refCount = 1
            /\ w2.sockets[new] =
                  [key |-> k, isStatus |-> FALSE, readyState |-> "connecting"]
            /\ \A g \in 1..Len(sockets) : w2.sockets[g] = closed.sockets[g]

\* No unregisterListener was ever called on key k, the socket of k is
\* closed all the same, and k has a connection with another socket and
\* refCount 1.
ReacquiredAfterServerClose ==
    \E k \in DataKeys, h \in 1..Len(sockets) :
      /\ sockets[h].key = k
      /\ sockets[h].readyState = "closed"
      /\ \A i \in 0..Len(listeners[k]) : <<k, i>> \notin unregistered
      /\ connections[k] # NoConn
      /\ connections[k].ws # h
      /\ connections[k].refCount = 1
      /\ Live(connections[k].ws)

\* The buffers a callback handed to decode, in order.
DecodesOf(w) ==
    [j \in 1..Len(SelectSeq(w.log, LAMBDA e : e.op = "decode")) |->
       SelectSeq(w.log, LAMBDA e : e.op = "decode")[j].bytes]

\* C7: when a widget's data listener handles a frame, the frame's bytes are
\* appended in order to the widget's buffer; if the buffer then has 128
\* bytes or more, or the frame is final, exactly that buffer is handed to
\* decode, once, and the buffer is empty afterwards; otherwise nothing is
\* decoded and the buffer is kept.  No other widget's buffer changes.
FlushRule ==
    \A s \in Sessions, evt \in DataMessages :
      LET w == wsListener_onmessage(World, WsListener(s, TRUE), evt)
          post == sessions[s].receive_buffer \o evt.c2_stream
      IN  /\ IF Len(post) >= 128 \/ evt.done
             THEN /\ DecodesOf(w) = <<post>>
                  /\ w.sessions[s].receive_buffer = <<>>
             ELSE /\ DecodesOf(w) = <<>>
                  /\ w.sessions[s].receive_buffer = post
          /\ \A t \in Sessions \ {s} : w.sessions[t] = sessions[t]

\* A playing widget, listening on an open socket, keeps the 64 bytes of a
\* frame that was not final.
FrameRetained ==
    \E s \in Sessions :
      /\ sessions[s].playerActive
      /\ ListeningIn(listeners, s, KeyOfSession(s))
      /\ connections[KeyOfSession(s)] # NoConn
      /\ sockets[connections[KeyOfSession(s)].ws].readyState = "open"
      /\ sessions[s].receive_buffer = Stream(64)

\* C8: when a playing widget stops, and when the key of a widget changes,
\* the widget's buffer is empty afterwards.
BufferDiscarded ==
    [][\A s \in Sessions :
         \/ sessions[s].playerActive /\ ~sessions'[s].playerActive
         \/ KeyOfSession(s)' # KeyOfSession(s)
         => sessions'[s].receive_buffer = <<>>]_vars

\* C9: the tokens issued for a key are the positions of its array; a step
\* never shortens an array and changes a slot only into the tombstone; and
\* the tokens a step issues are the positions it appends, so none of them
\* was issued before.
TokensStable ==
    [][\A k \in Keys :
         /\ issued[k] = 0..(Len(listeners[k]) - 1)
         /\ Len(listeners'[k]) >= Len(listeners[k])
         /\ \A i \in 1..Len(listeners[k]) :
              listeners'[k][i] \in {listeners[k][i], EmptyListener}
         /\ issued[k] \subseteq issued'[k]
         /\ issued'[k] \ issued[k] = Len(listeners[k])..(Len(listeners'[k]) - 1)]_vars

\* A widget played, stopped and plays again on the same key: token 0 was
\* unregistered and is a tombstone, and the widget's new token is 1.
SecondTokenDiffers ==
    \E s \in Sessions :
      LET k == KeyOfSession(s)
      IN  /\ Len(listeners[k]) = 2
          /\ <<k, 0>> \in unregistered
          /\ listeners[k][1] = EmptyListener
          /\ listeners[k][2] = WsListener(s, TRUE)
          /\ sessions[s].wsListenerIndex = 1
          /\ issued[k] = {0, 1}
          /\ \A t \in Sessions \ {s} : sessions[t].ws = NoWs /\ ~sessions[t].playerActive

\* The indices of the listeners a callback invoked, in the order of the
\* calls.
InvokedInOrder(w) ==
    [j \in 1..Len(SelectSeq(w.log, LAMBDA e : e.op = "invoke")) |->
       SelectSeq(w.log, LAMBDA e : e.op = "invoke")[j].index]

\* The indices of the slots of key k that define the event, ascending.
DefinedInOrder(k, eventName) ==
    SelectSeq([i \in 1..Len(listeners[k]) |-> i - 1],
              LAMBDA i : Defines(listeners[k][i + 1], eventName))

\* C10: an event of an open socket is delivered to the listeners of the
\* socket's key that define the event, each once, in index order.
DispatchInOrder ==
    \A h \in 1..Len(sockets) :
      sockets[h].readyState = "open" =>
        \A d \in Dispatches(sockets[h].key) :
          d.name # "onopen" =>
            InvokedInOrder(notifyListeners(World, sockets[h].key, d.name, d.evt))
              = DefinedInOrder(sockets[h].key, d.name)

\* C11: the error event of a live socket changes no table of the registry,
\* no socket and no widget; all it does is call, once and in index order,
\* the onerror of the listeners of the socket's key that define it.
ErrorOnlyDispatches ==
    \A h \in 1..Len(sockets) :
      Live(h) =>
        LET w == ws_onerror(World, h, NoEvent)
        IN  /\ w.connections = connections
            /\ w.statusConnections = statusConnections
            /\ w.listeners = listeners
            /\ w.sockets = sockets
            /\ w.sessions = sessions
            /\ \A j \in 1..Len(w.log) :
                  /\ w.log[j].op = "invoke"
                  /\ w.log[j].event = "onerror"
                  /\ w.log[j].key = sockets[h].key
            /\ InvokedInOrder(w) = DefinedInOrder(sockets[h].key, "onerror")

\* Two widgets play on one open socket, which can fail: its connection has
\* refCount 2 and two listeners that define onerror.
ErrorReachesTwoListeners ==
    \E k \in DataKeys :
      /\ connections[k] # NoConn
      /\ connections[k].refCount = 2
      /\ sockets[connections[k].ws].readyState = "open"
      /\ Len(DefinedInOrder(k, "onerror")) = 2

\* Widget s has a token that names an active listener of its own under its
\* current key, and the connection of that key is the one it acquired.
Subscribed(s) ==
    LET k == KeyOfSession(s)
        index == sessions[s].wsListenerIndex
    IN  /\ index >= 0
        /\ index < Len(listeners[k])
        /\ listeners[k][index + 1].kind = "ws"
        /\ listeners[k][index + 1].self = s
        /\ connections[k] # NoConn
        /\ connections[k].ws = sessions[s].ws
        /\ connections[k].ws \in held[s]

\* C12: a playing widget has a token that names its own active listener
\* under its current key and holds a reference on that key's connection.
PlayingIsSubscribed ==
    \A s \in Sessions : sessions[s].playerActive => Subscribed(s)

\* Widget s has an active data listener in some array of ls.
ListeningAnywhere(ls, s) == \E k \in DataKeys : ListeningIn(ls, s, k)

\* The click on the button of a playing widget s leaves the widget idle,
\* with no active data listener and no connection held, and takes no
\* connection from another widget.
StopReleases(s) ==
    LET w == togglePlay(World, s)
    IN  /\ ~w.sessions[s].playerActive
        /\ ~ListeningAnywhere(w.listeners, s)
        /\ HoldsOf(held, w)[s] = {}
        /\ \A t \in Sessions \ {s} : HoldsOf(held, w)[t] = held[t]

\* The close event of data socket h leaves idle every playing widget that
\* is subscribed to the socket's key.
CloseStops(h) ==
    LET w == ws_onclose([World EXCEPT !.sockets[h].readyState = "closed"], h)
    IN  \A s \in Sessions :
          sessions[s].playerActive /\ KeyOfSession(s) = sockets[h].key
            /\ ListeningIn(listeners, s, sockets[h].key)
            => ~w.sessions[s].playerActive

\* C13: toggling play on a playing widget unregisters the widget's data
\* listener, releases its reference and makes it idle; and the close of a
\* data socket makes idle every playing widget subscribed to its key.
StopAndCloseMakeIdle ==
    /\ \A s \in Sessions : sessions[s].playerActive => StopReleases(s)
    /\ \A h \in 1..Len(sockets) :
          ~sockets[h].isStatus /\ sockets[h].readyState # "closed" => CloseStops(h)

\* Widget s has a token that names its own active status listener under the
\* status key of its proxy.
StatusSubscribed(s) ==
    LET k == StatusKey(sessions[s].proxy)
        index == sessions[s].statusListenerIndex
    IN  /\ index >= 0
        /\ index < Len(listeners[k])
        /\ listeners[k][index + 1].kind = "status"
        /\ listeners[k][index + 1].self = s

\* C14: a widget that is on the page and has a proxy has an active status
\* listener under its proxy's status key, whether it plays or not.
StatusHeldContinuously ==
    \A s \in Sessions :
      sessions[s].isConnected /\ sessions[s].proxy # "" => StatusSubscribed(s)

\* getStatusConnection on status key k, and unregisterListener of a status
\* token of k, leave the registry of sockets as it is.
StatusCallsKeepSocket(k) ==
    /\ LET w == getStatusConnection(World, k[2])
       IN  /\ w.statusConnections = statusConnections
           /\ w.connections = connections
           /\ w.sockets = sockets
    /\ \A index \in -1..Len(listeners[k]) :
         LET w == unregisterListener(World, k[2], "", "", index, TRUE)
         IN  /\ w.statusConnections = statusConnections
             /\ w.connections = connections
             /\ w.sockets = sockets

\* What the callbacks of the widgets, and the events of the sockets other
\* than h, can leave the current state in.
OtherCallbacks(h) ==
    UNION {{togglePlay(World, s), connectedCallback(World, s),
            disconnectedCallback(World, s)}
             \cup {attributeChangedCallback(World, s, "module", v) : v \in Modules} :
           s \in Sessions}
      \cup {ws_onopen([World EXCEPT !.sockets[g].readyState = "open"], g) :
              g \in {g \in (1..Len(sockets)) \ {h} :
                       sockets[g].readyState = "connecting"}}
      \cup {ws_onerror(World, g, NoEvent) :
              g \in {g \in (1..Len(sockets)) \ {h} :
                       sockets[g].readyState \in {"connecting", "open"}}}
      \cup {ws_onclose([World EXCEPT !.sockets[g].readyState = "closed"], g) :
              g \in {g \in (1..Len(sockets)) \ {h} :
                       sockets[g].readyState \in {"connecting", "open", "closing"}}}

\* C15: while a status key has a socket, every getStatusConnection returns
\* that socket and creates none, no unregisterListener of a status token
\* closes or removes it, neither touches a refCount, and no callback other
\* than the socket's own close handler takes it out of the table or closes
\* it.
StatusClosedOnlyByTransport ==
    \A k \in StatusKeys :
      statusConnections[k] # NoWs =>
        /\ StatusCallsKeepSocket(k)
        /\ \A w \in OtherCallbacks(statusConnections[k]) :
             /\ w.statusConnections[k] = statusConnections[k]
             /\ w.sockets[statusConnections[k]] = sockets[statusConnections[k]]
        /\ sockets[statusConnections[k]].readyState # "closed"
        /\ ws_onclose(World, statusConnections[k]).statusConnections[k] = NoWs

\* An idle widget registered its status listener again after the page was
\* loaded: the first socket is still the status socket, live, and the
\* widget's.
StatusSocketKept ==
    \E k \in StatusKeys, s \in Sessions :
      /\ statusConnections[k] = 1
      /\ Live(1)
      /\ Len(sockets) = 1
      /\ Len(listeners[k]) >= 9
      /\ sessions[s].statusListenerIndex = Len(listeners[k]) - 1
      /\ sessions[s].statusWs = 1
      /\ StatusSubscribed(s)

\* The calls a dispatch made, in order.
Visits(L, i) == {p \in 1..Len(L) : L[p].op = "invoke" /\ L[p].index = i}
\* Token i of key k was unregistered before the iteration came to slot i.
UnregisteredAhead(L, k, i) ==
    \E p \in 1..Len(L) :
      /\ L[p].op = "unregisterListener" /\ L[p].key = k /\ L[p].index = i
      /\ \A q \in 1..(p - 1) : L[q].op = "invoke" => L[q].index < i

\* C16: in a dispatch whose listeners unregister tokens of the same key, a
\* slot is invoked exactly when it defines the callback at the start and no
\* listener visited before it has unregistered it: the slots visited before
\* an unregister are invoked once each, whatever is unregistered later, and
\* a slot tombstoned before the iteration reaches it is not invoked.
DispatchReadsLiveSlots ==
    \A k \in DataKeys :
      \A d \in Dispatches(k) :
        LET L == notifyListeners(World, k, d.name, d.evt).log
        IN  \A i \in 0..(Len(listeners[k]) - 1) :
              /\ Cardinality(Visits(L, i)) <= 1
              /\ Visits(L, i) # {} <=>
                    /\ Defines(listeners[k][i + 1], d.name)
                    /\ ~UnregisteredAhead(L, k, i)

\* The script's listener, between the two widgets', unregistered token 2
\* during the dispatch of a frame: the widget before it has the frame, the
\* widget after it was skipped.
LaterSlotSkipped ==
    \E k \in DataKeys :
      /\ listeners[k] = <<WsListener("A", TRUE), Unregisters(k, 2), EmptyListener>>
      /\ <<k, 2>> \in unregistered
      /\ sessions["A"].receive_buffer = Stream(64)
      /\ sessions["B"].receive_buffer = <<>>
      /\ sessions["B"].playerActive
      /\ connections[k].refCount = 2

\* C17: the close event of a socket the registry closed on its last release
\* leaves the connection entry created later for the same key, with its
\* refCount, in the registry.
StaleCloseKeepsNewConnection ==
    \A h \in 1..Len(sockets) :
      LET k == sockets[h].key
      IN  (/\ ~sockets[h].isStatus
           /\ sockets[h].readyState = "closing"
           /\ connections[k] # NoConn
           /\ connections[k].ws # h) =>
            ws_onclose([World EXCEPT !.sockets[h].readyState = "closed"], h)
              .connections[k] = connections[k]

\* Token index of key k names no active listener: its slot holds the
\* tombstone, or no registerListener on k has returned it.
Spent(k, index) ==
    \/ index \notin issued[k]
    \/ index \in issued[k] /\ listeners[k][index + 1] = EmptyListener

\* C18: an unregisterListener call on a data key with a token that is
\* already tombstoned or was never issued for the key leaves the key's
\* connection entry, refCount included, and every socket as they are.
ReleasedAtMostOnce ==
    \A k \in DataKeys :
      \A index \in -1..Len(listeners[k]) :
        Spent(k, index) =>
          LET w == unregisterListener(World, k[1], k[2], k[3], index, FALSE)
          IN  /\ w.connections[k] = connections[k]
              /\ w.sockets = sockets

\* C19: an idle widget has no active data listener under any key, and no
\* event of a data socket calls a callback of an idle widget.
IdleReceivesNothing ==
    \A s \in Sessions :
      ~sessions[s].playerActive =>
        /\ \A k \in DataKeys : ~ListeningIn(listeners, s, k)
        /\ \A k \in DataKeys :
             \A d \in Dispatches(k) :
               LET L == notifyListeners(World, k, d.name, d.evt).log
               IN  \A p \in 1..Len(L) : L[p].op = "invoke" => L[p].self # s

\* What a click on the button of widget s, a change of its key, or its
\* removal from the page can leave the current state in.
CallbacksOf(s) ==
    {togglePlay(World, s), disconnectedCallback(World, s)}
      \cup {attributeChangedCallback(World, s, "module", v) :
              v \in Modules \ {sessions[s].module}}

\* The data connections callback result w released: the sockets of the
\* entries its unregisterListener calls decremented.
ReleasedIn(w) ==
    {w.log[p].ws : p \in {q \in 1..Len(w.log) :
                            /\ w.log[q].op = "unregisterListener"
                            /\ w.log[q].ws # NoWs}}

\* C20: a callback of widget s tombstones only slots that hold a listener
\* of s, and decrements the refCount only of a connection s has acquired
\* and not released.
UnregistersOnlyOwn ==
    \A s \in Sessions :
      \A w \in CallbacksOf(s) :
        /\ \A k \in Keys :
             \A i \in 1..Len(listeners[k]) :
               listeners[k][i] # EmptyListener /\ w.listeners[k][i] = EmptyListener
                 => listeners[k][i].self = s
        /\ ReleasedIn(w) \subseteq held[s]

\* Every widget is stopped or removed from the page, and no socket the
\* registry closed is still waiting for its close event.
Quiescent ==
    /\ \A s \in Sessions : ~sessions[s].playerActive \/ ~sessions[s].isConnected
    /\ \A h \in 1..Len(sockets) : sockets[h].readyState # "closing"

\* C21: when no widget is playing and every pending close event has been
\* delivered, the registry has no data connection entry and no data socket
\* is connecting or open.
NoConnectionLeaked ==
    Quiescent =>
      /\ \A k \in DataKeys : connections[k] = NoConn
      /\ \A h \in 1..Len(sockets) :
           ~sockets[h].isStatus => sockets[h].readyState = "closed"

====
